---- MODULE Spec2Model ----
(***************************************************************************)
(* A model of the console contact manager (src/main.py, src/models.py):    *)
(* the PhoneBook store, its loading and validation of contacts.json, and   *)
(* the menu operations add, edit, search and the paginated listing loop.   *)
(*                                                                         *)
(* Text is modelled as a sequence of one-character strings, so that        *)
(* str.lower(), str.strip(), str.isdigit() and int() are computed rather   *)
(* than assumed.  A JSON value is a tagged value [kind, i, s]; a JSON      *)
(* object (a Python dict) is a function from key strings to tagged values. *)
(***************************************************************************)
EXTENDS Integers, Sequences, FiniteSets, TLC

VARIABLES
    pc,               \* where the program is: "start", "loaded" (in __init__,
                      \* load_contacts done), "menu" (main's prompt),
                      \* "edit_prompt" and "search_prompt" (the handler's
                      \* loop asks again), "listing" (the prompt of
                      \* show_display_contacts), "returned" (a handler has
                      \* just returned to main), "exit", "crashed"
    file_exists,      \* os.path.exists(self.filename)
    file,             \* the content of contacts.json: a sequence of dicts
    result_contacts,  \* load_contacts: what validate_contacts returned
    entries,          \* self.entries: a sequence of ContactModel
    next_id,          \* self.next_id (0 while __init__ has not set it)
    op,               \* the handler that ran last, and how it ended
    contact_id,       \* edit_contact: the number the user entered
    update,           \* edit_contact: the six answers the user typed
    fields_values,    \* search_contact: the criteria mapping
    table_data,       \* search_contact / show_display_contacts: rows printed
    page,             \* show_display_contacts: page
    total_pages,      \* show_display_contacts: total_pages
    page_size,        \* show_display_contacts: page_size
    error,            \* the exception that ended the program, or "none"
    assigned,         \* history: the ids add_contact has given out, in order
    edits             \* history: the number of contacts edit_contact replaced

vars == <<pc, file_exists, file, result_contacts, entries, next_id, op,
          contact_id, update, fields_values, table_data, page, total_pages,
          page_size, error, assigned, edits>>

store == <<file_exists, file, entries, next_id>>
locals == <<result_contacts, contact_id, update, fields_values, table_data,
            page, total_pages, page_size>>

-----------------------------------------------------------------------------
(* Bounds of the model.                                                    *)

\* longest contacts.json (in records) the program is started on
MaxFileLen == 3
\* number of add_contact calls explored in one run
MaxAdds == 2
\* number of contacts replaced by edit_contact in one run
MaxEdits == 1
\* largest page_size show_display_contacts is called with
MaxPageSize == 2

-----------------------------------------------------------------------------
(* Text: str as a sequence of characters.                                  *)

Digits == <<"0", "1", "2", "3", "4", "5", "6", "7", "8", "9">>

IsDigitChar(c) == \E d \in 1..Len(Digits) : Digits[d] = c

DigitValue(c) == (CHOOSE d \in 1..Len(Digits) : Digits[d] = c) - 1

\* str.isdigit(): non-empty and every character a digit
IsDigit(s) == Len(s) > 0 /\ \A k \in 1..Len(s) : IsDigitChar(s[k])

\* int(s) for a string of digits
RECURSIVE ParseInt(_)
ParseInt(s) ==
    IF Len(s) = 0 THEN 0
    ELSE 10 * ParseInt(SubSeq(s, 1, Len(s) - 1)) + DigitValue(s[Len(s)])

LowerChar(c) ==
    CASE c = "A" -> "a"
      [] c = "B" -> "b"
      [] c = "Q" -> "q"
      [] OTHER -> c

\* str.lower()
Lower(s) == [k \in 1..Len(s) |-> LowerChar(s[k])]

IsSpace(c) == c = " "

RECURSIVE LStrip(_)
LStrip(s) ==
    IF Len(s) > 0 /\ IsSpace(s[1]) THEN LStrip(Tail(s)) ELSE s

RECURSIVE RStrip(_)
RStrip(s) ==
    IF Len(s) > 0 /\ IsSpace(s[Len(s)])
    THEN RStrip(SubSeq(s, 1, Len(s) - 1)) ELSE s

\* str.strip()
Strip(s) == RStrip(LStrip(s))

-----------------------------------------------------------------------------
(* JSON values and the ContactModel.                                       *)

IntV(n) == [kind |-> "int", i |-> n, s |-> <<>>]
StrV(t) == [kind |-> "str", i |-> 0, s |-> t]

TextFields == <<"first_name", "last_name", "middle_name", "organization",
                "work_phone", "personal_phone">>

\* PhoneBook.FIELD_TYPES: the kinds isinstance accepts for each key
FIELD_TYPES ==
    [id             |-> {"int"},
     first_name     |-> {"str"},
     middle_name    |-> {"str"},
     last_name      |-> {"str"},
     organization   |-> {"str"},
     work_phone     |-> {"str", "int"},
     personal_phone |-> {"str", "int"}]

\* models.ContactModel: the declared type of each field
ContactModel ==
    [id             |-> "int",
     first_name     |-> "str",
     last_name      |-> "str",
     middle_name    |-> "str",
     organization   |-> "str",
     work_phone     |-> "str",
     personal_phone |-> "str"]

\* ContactModel(**contact) succeeds: every declared field is present with a
\* value of the declared type, and the result carries the typed values
ModelAccepts(contact) ==
    /\ DOMAIN ContactModel \subseteq DOMAIN contact
    /\ \A k \in DOMAIN ContactModel : contact[k].kind = ContactModel[k]

Construct(contact) ==
    [k \in DOMAIN ContactModel |->
        IF ContactModel[k] = "int" THEN contact[k].i ELSE contact[k].s]

\* ContactModel.model_dump()
model_dump(c) ==
    [k \in DOMAIN ContactModel |->
        IF ContactModel[k] = "int" THEN IntV(c[k]) ELSE StrV(c[k])]

\* ContactModel.model_dump_table()
model_dump_table(c) ==
    <<c.id, c.first_name, c.last_name, c.middle_name, c.organization,
      c.work_phone, c.personal_phone>>

-----------------------------------------------------------------------------
(* Helpers on sequences of contacts.                                       *)

SeqMax(ids) == CHOOSE m \in {ids[k] : k \in 1..Len(ids)} :
                   \A k \in 1..Len(ids) : ids[k] <= m

\* list.sort(key=lambda contact: contact.id) is stable: insert each element
\* after every element whose id is not larger
RECURSIVE InsertById(_, _)
InsertById(sorted, c) ==
    IF Len(sorted) = 0 THEN <<c>>
    ELSE IF sorted[Len(sorted)].id <= c.id THEN Append(sorted, c)
    ELSE Append(InsertById(SubSeq(sorted, 1, Len(sorted) - 1), c),
                sorted[Len(sorted)])

RECURSIVE SortFrom(_, _, _)
SortFrom(s, k, sorted) ==
    IF k > Len(s) THEN sorted
    ELSE SortFrom(s, k + 1, InsertById(sorted, s[k]))

\* PhoneBook.sort_contacts
sort_contacts(s) == SortFrom(s, 1, <<>>)

\* list.remove(x): drops the first element equal to x
ListRemove(s, x) ==
    LET k == CHOOSE j \in 1..Len(s) :
                 s[j] = x /\ \A h \in 1..(j - 1) : s[h] # x
    IN  SubSeq(s, 1, k - 1) \o SubSeq(s, k + 1, Len(s))

\* PhoneBook.get_next_id
get_next_id(es) ==
    IF Len(es) > 0 THEN SeqMax([k \in 1..Len(es) |-> es[k].id]) + 1 ELSE 1

\* what save_contact writes: json.dump of every entry's model_dump()
Dump(es) == [k \in 1..Len(es) |-> model_dump(es[k])]

-----------------------------------------------------------------------------
(* Validation.                                                             *)

\* the test both validators apply to every key of a dict
KeysAndTypesOk(contact) ==
    \A key \in DOMAIN contact :
        ~ (key \notin DOMAIN FIELD_TYPES
           \/ contact[key].kind \notin FIELD_TYPES[key])

\* PhoneBook.validate_contact
validate_contact(contact) ==
    IF Cardinality(DOMAIN contact) # Cardinality(DOMAIN FIELD_TYPES)
    THEN FALSE
    ELSE KeysAndTypesOk(contact)

\* the id max_id is taken over in validate_contacts (line 105)
RenumberBase(result_data, invalid_data) ==
    SeqMax([k \in 1..Len(invalid_data) |-> invalid_data[k].id.i])

\* the first loop of validate_contacts, record k onwards; acc carries
\* result_data, invalid_data and processed_ids
RECURSIVE ValidateLoop(_, _, _)
ValidateLoop(data, k, acc) ==
    IF k > Len(data) THEN acc
    ELSE LET contact == data[k] IN
         IF Cardinality(DOMAIN contact) # Cardinality(DOMAIN FIELD_TYPES)
         THEN ValidateLoop(data, k + 1, acc)
         ELSE IF ~ KeysAndTypesOk(contact)
         THEN ValidateLoop(data, k + 1, acc)
         ELSE IF \A j \in 1..Len(acc.processed_ids) :
                     acc.processed_ids[j] # contact.id.i
         THEN ValidateLoop(data, k + 1,
                  [acc EXCEPT !.result_data = Append(@, contact),
                              !.processed_ids = Append(@, contact.id.i)])
         ELSE ValidateLoop(data, k + 1,
                  [acc EXCEPT !.invalid_data = Append(@, contact)])

\* PhoneBook.validate_contacts
validate_contacts(data) ==
    LET acc == ValidateLoop(data, 1,
                   [result_data |-> <<>>, invalid_data |-> <<>>,
                    processed_ids |-> <<>>])
    IN  IF Len(acc.invalid_data) > 0
        THEN LET max_id == RenumberBase(acc.result_data, acc.invalid_data)
             IN  acc.result_data \o
                 [index \in 1..Len(acc.invalid_data) |->
                     [acc.invalid_data[index] EXCEPT
                         !["id"] = IntV(max_id + index)]]
        ELSE acc.result_data

-----------------------------------------------------------------------------
(* The inputs explored.                                                    *)

\* a well-formed record whose six text fields all hold t
Base(n, t) ==
    [id             |-> IntV(n),
     first_name     |-> StrV(t),
     last_name      |-> StrV(t),
     middle_name    |-> StrV(t),
     organization   |-> StrV(t),
     work_phone     |-> StrV(t),
     personal_phone |-> StrV(t)]

\* the dict contact with key deleted
Without(contact, key) ==
    [k \in DOMAIN contact \ {key} |-> contact[k]]

\* the dict contact with contact[key] = v
With(contact, key, v) ==
    [k \in DOMAIN contact \cup {key} |-> IF k = key THEN v ELSE contact[k]]

\* well-formed records: two ids, and a second record of id 1 whose text is
\* longer and in mixed case
GoodRecords ==
    {Base(1, <<"a">>), Base(2, <<"a">>), Base(1, <<"A", "b">>)}

\* records a tampered file may hold: a key missing, a foreign key in place of
\* a field, and an id that is text
BadRecords ==
    { Without(Base(1, <<"a">>), "organization"),
      With(Without(Base(1, <<"a">>), "organization"), "nickname",
           StrV(<<"a">>)),
      With(Base(1, <<"a">>), "id", StrV(<<"1">>)) }

\* a record whose phone is a number, which FIELD_TYPES admits and
\* ContactModel does not
NumberPhoneRecords == { With(Base(1, <<"a">>), "work_phone", IntV(1)) }

\* the sequences over S of length at most n
SeqsUpTo(S, n) == UNION {[1..m -> S] : m \in 0..n}

\* the contents of contacts.json the store is started on
RawFiles == SeqsUpTo(GoodRecords \cup BadRecords \cup NumberPhoneRecords,
                     MaxFileLen)

\* the contents that hold well-formed records only
GoodFiles == SeqsUpTo(GoodRecords, MaxFileLen)

-----------------------------------------------------------------------------
(* main's menu: the handler each choice runs (lines 378-387).              *)

Menu ==
    [c \in {"1", "2", "3", "4", "5"} |->
        CASE c = "1" -> "show_display_contacts"
          [] c = "2" -> "add_contact"
          [] c = "3" -> "edit_contact"
          [] c = "4" -> "search_contact"
          [] c = "5" -> "break"]

\* the menu is at its prompt and some choice runs handler
Chosen(handler) ==
    /\ pc = "menu"
    /\ \E choice \in DOMAIN Menu : Menu[choice] = handler

-----------------------------------------------------------------------------
(* Construction: PhoneBook.__init__.                                       *)

TextFieldSet == {TextFields[k] : k \in 1..Len(TextFields)}

NoUpdate == [k \in TextFieldSet |-> <<>>]

LocalsCleared ==
    /\ result_contacts' = <<>>
    /\ contact_id' = <<>>
    /\ update' = NoUpdate
    /\ fields_values' = <<>>
    /\ table_data' = <<>>
    /\ page' = 0
    /\ total_pages' = 0
    /\ page_size' = 0

InitWith(Files) ==
    /\ pc = "start"
    /\ file_exists \in BOOLEAN
    /\ file \in (IF file_exists THEN Files ELSE {<<>>})
    /\ result_contacts = <<>>
    /\ entries = <<>>
    /\ next_id = 0
    /\ op = "none"
    /\ contact_id = <<>>
    /\ update = NoUpdate
    /\ fields_values = <<>>
    /\ table_data = <<>>
    /\ page = 0
    /\ total_pages = 0
    /\ page_size = 0
    /\ error = "none"
    /\ assigned = <<>>
    /\ edits = 0

\* PhoneBook.load_contacts, called from __init__ (line 28)
LoadContacts ==
    /\ pc = "start"
    /\ IF file_exists
       THEN LET r == validate_contacts(file) IN
            /\ result_contacts' = r
            /\ IF \A k \in 1..Len(r) : ModelAccepts(r[k])
               THEN /\ entries' = entries \o [k \in 1..Len(r) |-> Construct(r[k])]
                    /\ pc' = "loaded"
                    /\ error' = error
               ELSE /\ entries' = entries
                    /\ pc' = "crashed"
                    /\ error' = "ValidationError"
       ELSE /\ pc' = "loaded"
            /\ UNCHANGED <<result_contacts, entries, error>>
    /\ UNCHANGED <<file_exists, file, next_id, op, contact_id, update,
                   fields_values, table_data, page, total_pages, page_size,
                   assigned, edits>>

\* __init__ line 29: self.next_id = self.get_next_id()
InitNextId ==
    /\ pc = "loaded"
    /\ next_id' = get_next_id(entries)
    /\ pc' = "menu"
    /\ LocalsCleared
    /\ UNCHANGED <<file_exists, file, entries, op, error, assigned, edits>>

-----------------------------------------------------------------------------
(* add_contact.                                                            *)

\* a faulty add_contact that numbers the new contact by its position
ContactData_ByPosition(n, answers) ==
    [k \in {"id"} \cup TextFieldSet |->
        IF k = "id" THEN IntV(Len(entries) + 1) ELSE StrV(answers[k])]

\* the dict add_contact builds from next_id and the six answers (140-148)
ContactData(n, answers) ==
    [k \in DOMAIN ContactModel |->
        IF k = "id" THEN IntV(n) ELSE StrV(answers[k])]

\* a faulty add_contact that forgets to advance next_id
NextIdAfterAdd_Stale(n) == n

\* self.next_id += 1 (line 153)
NextIdAfterAdd(n) == n + 1

\* the answers typed at add_contact's six prompts
AddInputs == {[k \in TextFieldSet |-> <<"A">>]}

AddContact(answers) ==
    /\ Chosen("add_contact")
    /\ Len(assigned) < MaxAdds
    /\ LET contact_data == ContactData(next_id, answers) IN
       IF validate_contact(contact_data)
       THEN /\ entries' = Append(entries, Construct(contact_data))
            /\ file' = Dump(entries')
            /\ file_exists' = TRUE
            /\ next_id' = NextIdAfterAdd(next_id)
            /\ op' = "add"
            /\ assigned' = Append(assigned, entries'[Len(entries')].id)
       ELSE /\ op' = "add_invalid"
            /\ UNCHANGED <<entries, file, file_exists, next_id, assigned>>
    /\ pc' = "returned"
    /\ UNCHANGED <<result_contacts, contact_id, update, fields_values,
                   table_data, page, total_pages, page_size, error, edits>>

-----------------------------------------------------------------------------
(* edit_contact.                                                           *)

\* a faulty edit_contact that takes every answer, the empty ones too
Merge_Clearing(contact, answers) ==
    [k \in DOMAIN contact |->
        IF k \in TextFieldSet THEN answers[k] ELSE contact[k]]

\* input(...) or contact.<field>, for the six fields, then model_copy
\* (lines 173-195)
Merge(contact, answers) ==
    [k \in DOMAIN contact |->
        IF k \in TextFieldSet /\ answers[k] # <<>> THEN answers[k]
        ELSE contact[k]]

\* a faulty edit_contact that removes the old contact and appends nothing
Replace_Dropping(es, contact, updated) ==
    sort_contacts(ListRemove(es, contact))

\* lines 197-199: remove the old contact, append the new one, sort by id
Replace(es, contact, updated) ==
    sort_contacts(Append(ListRemove(es, contact), updated))

\* the contact the for loop of line 170 stops at: the first with that id
FirstWithId(es, n) ==
    es[CHOOSE k \in 1..Len(es) :
           es[k].id = n /\ \A h \in 1..(k - 1) : es[h].id # n]

HasId(es, n) == \E k \in 1..Len(es) : es[k].id = n

\* what the user may type at "enter the contact number"
EditIdInputs ==
    {<<"q">>, <<"Q">>, <<"x">>, <<"0", "1">>, <<"2">>, <<"3">>, <<"4">>}

\* what the user may type at the six prompts of edit_contact
UpdateChoices ==
    { NoUpdate,
      [NoUpdate EXCEPT !.last_name = <<"b">>, !.work_phone = <<"B">>] }

\* one pass of edit_contact's loop (lines 166-208).  Only q and a number
\* that no contact has leave the loop: after a replacement the break of
\* line 202 ends the for loop alone, and a malformed number continues.  The
\* six prompts (answers) are reached only when the contact exists.
EditContact(inp, answers) ==
    /\ Chosen("edit_contact") \/ pc = "edit_prompt"
    /\ contact_id' = inp
    /\ IF Lower(inp) = <<"q">>
       THEN /\ answers = NoUpdate
            /\ op' = "edit_quit"
            /\ pc' = "returned"
            /\ UNCHANGED <<store, update, edits>>
       ELSE IF IsDigit(inp)
       THEN IF HasId(entries, ParseInt(inp))
            THEN LET contact == FirstWithId(entries, ParseInt(inp))
                     updated_contact == Merge(contact, answers)
                 IN  /\ edits < MaxEdits
                     /\ entries' = Replace(entries, contact, updated_contact)
                     /\ file' = Dump(entries')
                     /\ file_exists' = TRUE
                     /\ update' = answers
                     /\ edits' = edits + 1
                     /\ op' = "edit"
                     /\ pc' = "edit_prompt"
                     /\ UNCHANGED next_id
            ELSE /\ answers = NoUpdate
                 /\ op' = "edit_missing"
                 /\ pc' = "returned"
                 /\ UNCHANGED <<store, update, edits>>
       ELSE /\ answers = NoUpdate
            /\ op' = "edit_format"
            /\ pc' = "edit_prompt"
            /\ UNCHANGED <<store, update, edits>>
    /\ UNCHANGED <<result_contacts, fields_values, table_data, page,
                   total_pages, page_size, error, assigned>>

-----------------------------------------------------------------------------
(* main's loop.                                                            *)

\* a handler has returned: its locals are gone, the menu is printed again
MainLoop ==
    /\ pc = "returned"
    /\ pc' = "menu"
    /\ op' = "none"
    /\ LocalsCleared
    /\ UNCHANGED <<store, error, assigned, edits>>

\* choice 5
Exit ==
    /\ Chosen("break")
    /\ pc' = "exit"
    /\ UNCHANGED <<store, locals, op, error, assigned, edits>>

-----------------------------------------------------------------------------
(* search_contact.                                                         *)

\* re.sub(r'[^0-9,]', '', user_input)
KeepDigitsAndCommas(s) ==
    SelectSeq(s, LAMBDA c : IsDigitChar(c) \/ c = ",")

\* str.split(','): tokens is the list so far, cur the token being read
RECURSIVE SplitFrom(_, _, _, _)
SplitFrom(s, k, tokens, cur) ==
    IF k > Len(s) THEN Append(tokens, cur)
    ELSE IF s[k] = "," THEN SplitFrom(s, k + 1, Append(tokens, cur), <<>>)
    ELSE SplitFrom(s, k + 1, tokens, Append(cur, s[k]))

Split(s) == SplitFrom(s, 1, <<>>, <<>>)

\* the largest field number _get_search_fields keeps (line 229)
MaxFieldNumber == 7

\* PhoneBook._get_search_fields
get_search_fields(user_input) ==
    LET tokens == Split(KeepDigitsAndCommas(user_input))
        kept == SelectSeq(tokens,
                    LAMBDA t : t # <<>> /\ ParseInt(t) <= MaxFieldNumber)
    IN  [k \in 1..Len(kept) |-> ParseInt(kept[k])]

\* the key each field number stands for in _get_search_values
FieldKeys == <<"id", "first_name", "last_name", "middle_name",
               "organization", "work_phone", "personal_phone">>

\* the number of prompts _get_search_values makes for fields
Prompts(fields) ==
    Cardinality({k \in 1..Len(fields) : fields[k] \in 1..Len(FieldKeys)})

\* PhoneBook._get_search_values, field k onwards; answers[a] is what the
\* user types at the next prompt
RECURSIVE SearchValuesFrom(_, _, _, _, _)
SearchValuesFrom(fields, answers, k, a, fv) ==
    IF k > Len(fields) THEN fv
    ELSE LET field == fields[k] IN
         IF field = 1
         THEN SearchValuesFrom(fields, answers, k + 1, a + 1,
                  IF IsDigit(Strip(answers[a]))
                  THEN ("id" :> IntV(ParseInt(Strip(answers[a])))) @@ fv
                  ELSE fv)
         ELSE IF field \in 2..Len(FieldKeys)
         THEN SearchValuesFrom(fields, answers, k + 1, a + 1,
                  IF Strip(answers[a]) # <<>>
                  THEN (FieldKeys[field] :> StrV(Strip(answers[a]))) @@ fv
                  ELSE fv)
         ELSE SearchValuesFrom(fields, answers, k + 1, a, fv)

get_search_values(fields, answers) ==
    SearchValuesFrom(fields, answers, 1, 1, <<>>)

\* a faulty search_contact that compares every text field exactly
FieldMatches_Exact(contact, field, value) ==
    IF field = "id" THEN contact.id = value.i ELSE contact[field] = value.s

\* the comparison search_contact makes for one criterion (lines 291-318)
FieldMatches(contact, field, value) ==
    CASE field = "id"             -> contact.id = value.i
      [] field = "first_name"     -> Lower(contact.first_name) = Lower(value.s)
      [] field = "last_name"      -> Lower(contact.last_name) = Lower(value.s)
      [] field = "middle_name"    -> Lower(contact.middle_name) = Lower(value.s)
      [] field = "organization"   -> Lower(contact.organization) = Lower(value.s)
      [] field = "work_phone"     -> contact.work_phone = value.s
      [] field = "personal_phone" -> contact.personal_phone = value.s
      [] OTHER                    -> TRUE

\* the match flag after the inner loop (lines 289-318)
Match(contact, fv) ==
    \A field \in DOMAIN fv : FieldMatches(contact, field, fv[field])

\* the rows search_contact collects (lines 286-320)
SearchRows(es, fv) ==
    LET found == SelectSeq(es, LAMBDA contact : Match(contact, fv))
    IN  [k \in 1..Len(found) |-> model_dump_table(found[k])]

\* what the user may type at "enter the numbers, comma separated"
SearchFieldInputs ==
    {<<Digits[d]>> : d \in 1..Len(Digits)} \cup {<<"1", ",", "2">>, <<"x">>}

\* what the user may type at a prompt for a search value
SearchAnswers == {<<" ", "1">>, <<"a", " ">>, <<"a", "B">>, <<" ">>}

\* one pass of search_contact's loop; with no field selected it prompts again
SearchContact(user_input, answers) ==
    /\ Chosen("search_contact") \/ pc = "search_prompt"
    /\ LET fields == get_search_fields(user_input) IN
       IF Len(fields) > 0
       THEN /\ Len(answers) = Prompts(fields)
            /\ fields_values' = get_search_values(fields, answers)
            /\ table_data' = SearchRows(entries, fields_values')
            /\ op' = IF Len(table_data') > 0 THEN "search_found"
                     ELSE "search_none"
            /\ pc' = "returned"
       ELSE /\ Len(answers) = 0
            /\ op' = "search_nofields"
            /\ pc' = "search_prompt"
            /\ UNCHANGED <<fields_values, table_data>>
    /\ UNCHANGED <<store, result_contacts, contact_id, update, page,
                   total_pages, page_size, error, assigned, edits>>

-----------------------------------------------------------------------------
(* show_display_contacts.                                                  *)

Min(a, b) == IF a <= b THEN a ELSE b

\* line 340
TotalPages(count, size) == (count + size - 1) \div size

\* lines 345-350: the rows of self.entries[start_index:end_index]
PageRows(es, pg, size) ==
    LET start_index == (pg - 1) * size
        end_index == start_index + size
        shown == SubSeq(es, Min(start_index, Len(es)) + 1,
                        Min(end_index, Len(es)))
    IN  [k \in 1..Len(shown) |-> model_dump_table(shown[k])]

\* line 358
NextPage(pg, total) == (pg % total) + 1

\* line 360
PreviousPage(pg, total) == ((pg - 2) % total) + 1

\* choice 1: the call, up to the first prompt
ShowDisplayContacts(size) ==
    /\ Chosen("show_display_contacts")
    /\ page_size' = size
    /\ page' = 1
    /\ total_pages' = TotalPages(Len(entries), size)
    /\ table_data' = PageRows(entries, page', size)
    /\ op' = "show"
    /\ pc' = "listing"
    /\ UNCHANGED <<store, result_contacts, contact_id, update, fields_values,
                   error, assigned, edits>>

\* the user types n or b: the page changes and is printed, or the division
\* by total_pages raises
Turn(forward) ==
    /\ pc = "listing"
    /\ IF total_pages = 0
       THEN /\ pc' = "crashed"
            /\ error' = "ZeroDivisionError"
            /\ UNCHANGED <<page, table_data, op>>
       ELSE /\ page' = IF forward THEN NextPage(page, total_pages)
                       ELSE PreviousPage(page, total_pages)
            /\ table_data' = PageRows(entries, page', page_size)
            /\ op' = IF forward THEN "next" ELSE "previous"
            /\ UNCHANGED <<pc, error>>
    /\ UNCHANGED <<store, result_contacts, contact_id, update, fields_values,
                   total_pages, page_size, assigned, edits>>

\* the user types q
QuitListing ==
    /\ pc = "listing"
    /\ pc' = "returned"
    /\ op' = "show_quit"
    /\ UNCHANGED <<store, locals, error, assigned, edits>>

InitStore == InitWith(RawFiles)

NextStore ==
    \/ LoadContacts
    \/ InitNextId
    \/ \E answers \in AddInputs : AddContact(answers)
    \/ \E inp \in EditIdInputs, answers \in UpdateChoices :
           EditContact(inp, answers)
    \/ MainLoop
    \/ Exit

\* the store from any contacts.json: construction, add, edit
SpecStore == InitStore /\ [][NextStore]_vars

InitShell == InitWith(GoodFiles)

NextShell ==
    \/ LoadContacts
    \/ InitNextId
    \/ \E answers \in AddInputs : AddContact(answers)
    \/ \E user_input \in SearchFieldInputs, answers \in SeqsUpTo(SearchAnswers, 2) :
           SearchContact(user_input, answers)
    \/ \E size \in 1..MaxPageSize : ShowDisplayContacts(size)
    \/ \E forward \in BOOLEAN : Turn(forward)
    \/ QuitListing
    \/ MainLoop
    \/ Exit

\* the menu's read-only operations on a store loaded from a well-formed
\* contacts.json and grown by add
SpecShell == InitShell /\ [][NextShell]_vars

-----------------------------------------------------------------------------
(* Vocabulary of the properties.                                           *)

\* __init__ has finished and no exception has ended the program
Constructed ==
    pc \in {"menu", "returned", "edit_prompt", "search_prompt", "listing",
            "exit"}

UniqueIds(es) ==
    \A i, j \in 1..Len(es) : i # j => es[i].id # es[j].id

AscendingIds(es) ==
    \A i, j \in 1..Len(es) : i < j => es[i].id <= es[j].id

\* the number of times r occurs in es
Count(es, r) == Cardinality({k \in 1..Len(es) : es[k] = r})

\* the elements of data at the indices that satisfy Test, in order
Pick(data, Test(_)) ==
    LET idx == SelectSeq([k \in 1..Len(data) |-> k], Test)
    IN  [k \in 1..Len(idx) |-> data[idx[k]]]

\* a raw record with exactly the seven keys, each of a kind FIELD_TYPES admits
StructurallyValid(c) ==
    /\ DOMAIN c = DOMAIN FIELD_TYPES
    /\ \A key \in DOMAIN c : c[key].kind \in FIELD_TYPES[key]

\* record k of data is structurally valid and an earlier structurally valid
\* record has its id
Colliding(data, k) ==
    /\ StructurallyValid(data[k])
    /\ \E j \in 1..(k - 1) :
           StructurallyValid(data[j]) /\ data[j].id.i = data[k].id.i

Accepted(data, k) == StructurallyValid(data[k]) /\ ~ Colliding(data, k)

\* the result the validator is specified to give
SpecifiedValidation(data) ==
    LET accepted == Pick(data, LAMBDA k : Accepted(data, k))
        colliding == Pick(data, LAMBDA k : Colliding(data, k))
        max_id == IF Len(accepted) = 0 THEN 0
                  ELSE SeqMax([k \in 1..Len(accepted) |-> accepted[k].id.i])
    IN  accepted \o
        [k \in 1..Len(colliding) |->
            [colliding[k] EXCEPT !["id"] = IntV(max_id + k)]]

-----------------------------------------------------------------------------
(* The properties.                                                         *)

\* C1: once the store is constructed, from whatever contacts.json, and after
\* any adds and edits, no two contacts in entries have the same id.
C1_UniqueIds == Constructed => UniqueIds(entries)

\* C2: validate_contacts returns the accepted records in their order,
\* followed by the colliding records in their order, the k-th renumbered to
\* (highest accepted id) + k; structurally invalid records are absent.
C2_Renumbering ==
    (pc = "loaded" /\ file_exists)
        => result_contacts = SpecifiedValidation(file)

\* C3: between operations, next_id is strictly greater than the id of every
\* contact in entries.
C3_NextIdAboveAll ==
    Constructed => \A k \in 1..Len(entries) : entries[k].id < next_id

\* C3 witness: a store loaded from a file with a colliding id, after an add
\* and an edit.
C3_Witness ==
    /\ pc = "menu"
    /\ ~ UniqueIds(entries)
    /\ Len(assigned) >= 1
    /\ edits >= 1

-----------------------------------------------------------------------------

\* C4: every add stores its contact under the value next_id had before the
\* call; the ids given out by successive adds, whatever edits come between,
\* are strictly increasing (so pairwise distinct); and in a store that
\* started empty the k-th add gives id k (1, then 2).
C4_AddIds ==
    [][Len(assigned') = Len(assigned) + 1
         => /\ Len(entries') = Len(entries) + 1
            /\ entries'[Len(entries')].id = next_id
            /\ assigned'[Len(assigned')] = next_id
            /\ \A k \in 1..Len(assigned) : assigned[k] < next_id
            /\ (Len(entries) = Len(assigned)
                    => assigned'[Len(assigned')] = Len(assigned) + 1)]_vars

\* C4 witness: a store that started empty, after two adds with an edit
\* between them.
C4_Witness ==
    /\ Len(assigned) = 2
    /\ Len(entries) = 2
    /\ edits = 1
    /\ op = "add"

\* the contact C9 expects in place of old after the answers upd
ExpectedEdit(old, upd) ==
    [id             |-> old.id,
     first_name     |-> IF upd.first_name = <<>> THEN old.first_name
                        ELSE upd.first_name,
     last_name      |-> IF upd.last_name = <<>> THEN old.last_name
                        ELSE upd.last_name,
     middle_name    |-> IF upd.middle_name = <<>> THEN old.middle_name
                        ELSE upd.middle_name,
     organization   |-> IF upd.organization = <<>> THEN old.organization
                        ELSE upd.organization,
     work_phone     |-> IF upd.work_phone = <<>> THEN old.work_phone
                        ELSE upd.work_phone,
     personal_phone |-> IF upd.personal_phone = <<>> THEN old.personal_phone
                        ELSE upd.personal_phone]

\* after is before with one occurrence of old replaced by new, order apart
ReplacedOne(before, after, old, new) ==
    /\ Len(after) = Len(before)
    /\ \A r \in {before[k] : k \in 1..Len(before)}
                \cup {after[k] : k \in 1..Len(after)} \cup {old, new} :
           Count(after, r) + (IF r = old THEN 1 ELSE 0)
               = Count(before, r) + (IF r = new THEN 1 ELSE 0)

\* C9: an edit of an existing id replaces exactly the first contact with
\* that id by one with the same id in which every field with an empty answer
\* keeps its value and every other field takes the answer; all other
\* contacts, their number and next_id are unchanged, and with six empty
\* answers the collection holds the same contacts as before.
C9_EditFrame ==
    [][edits' = edits + 1
         => LET n == ParseInt(contact_id')
                held == {k \in 1..Len(entries) : entries[k].id = n}
            IN  /\ IsDigit(contact_id')
                /\ held # {}
                /\ LET old == entries[CHOOSE k \in held :
                                          \A h \in held : k <= h]
                   IN  ReplacedOne(entries, entries', old,
                                   ExpectedEdit(old, update'))
                /\ next_id' = next_id
                /\ (update' = NoUpdate
                        => \A k \in 1..Len(entries) :
                               Count(entries', entries[k])
                                   = Count(entries, entries[k]))]_vars

\* C9 witness: an edit that changed some fields and kept others, in a store
\* of several contacts.
C9_Witness ==
    /\ op = "edit"
    /\ update # NoUpdate
    /\ Len(entries) >= 2
    /\ \E k \in 1..Len(entries) :
           /\ entries[k].id = ParseInt(contact_id)
           /\ entries[k].last_name = update.last_name
           /\ entries[k].first_name # <<>>

-----------------------------------------------------------------------------

\* search_contact has run with some field selected
Searched == op \in {"search_found", "search_none"}

\* equality of two texts up to letter case
SameLetter(c, d) ==
    \/ c = d
    \/ <<c, d>> \in {<<"a", "A">>, <<"A", "a">>, <<"b", "B">>, <<"B", "b">>,
                     <<"q", "Q">>, <<"Q", "q">>}

EqualIgnoringCase(t, u) ==
    /\ Len(t) = Len(u)
    /\ \A k \in 1..Len(t) : SameLetter(t[k], u[k])

\* the rows of the contacts of es that satisfy Test, in order
RowsWhere(es, Test(_)) ==
    LET found == SelectSeq(es, Test)
    IN  [k \in 1..Len(found) |->
            <<found[k].id, found[k].first_name, found[k].last_name,
              found[k].middle_name, found[k].organization,
              found[k].work_phone, found[k].personal_phone>>]

\* C5, as claimed: with non-empty criteria, search returns exactly the
\* contacts that match every criterion, the id by equality and each of the
\* six text fields by case-insensitive equality of the whole text.
C5_AllTextIgnoringCase ==
    (Searched /\ DOMAIN fields_values # {})
        => table_data =
               RowsWhere(entries,
                   LAMBDA c : \A f \in DOMAIN fields_values :
                       IF f = "id" THEN c.id = fields_values[f].i
                       ELSE EqualIgnoringCase(c[f], fields_values[f].s))

\* C5, amended: with non-empty criteria, search returns exactly the contacts
\* that match every criterion, the id by equality, first_name, last_name,
\* middle_name and organization by case-insensitive equality of the whole
\* text, and work_phone and personal_phone by exact, case-sensitive equality.
C5_NamesIgnoringCasePhonesExact ==
    (Searched /\ DOMAIN fields_values # {})
        => table_data =
               RowsWhere(entries,
                   LAMBDA c : \A f \in DOMAIN fields_values :
                       IF f = "id" THEN c.id = fields_values[f].i
                       ELSE IF f \in {"work_phone", "personal_phone"}
                       THEN c[f] = fields_values[f].s
                       ELSE EqualIgnoringCase(c[f], fields_values[f].s))

\* C5 witness: a search on id and first_name together that found a contact
\* whose first_name differs from the criterion in letter case and left out
\* some other contact of the store.
C5_Witness ==
    /\ op = "search_found"
    /\ DOMAIN fields_values = {"id", "first_name"}
    /\ Len(table_data) < Len(entries)
    /\ \E k \in 1..Len(table_data) :
           table_data[k][2] # fields_values.first_name.s

\* C6: a search whose criteria mapping is empty returns no contact.
C6_EmptyCriteriaNoRows ==
    (Searched /\ DOMAIN fields_values = {}) => table_data = <<>>

\* the elements of es at the 0-based positions (pg-1)*size up to, not
\* including, pg*size
Slice(es, pg, size) ==
    LET first == (pg - 1) * size
        n == Cardinality({k \in 1..Len(es) : first < k /\ k <= pg * size})
    IN  [k \in 1..n |-> es[first + k]]

\* the smallest number of pages of size that hold count contacts
Ceil(count, size) ==
    CHOOSE n \in 0..count : n * size >= count /\ (n = 0 \/ (n - 1) * size < count)

\* C7: the collection is in ascending id order in every state of a store
\* loaded from well-formed records, so that the listing shows the slice
\* [(page-1)*page_size, page*page_size) of the contacts in id order and
\* counts ceil(count/page_size) pages.
C7_SortedListing ==
    Constructed =>
        /\ AscendingIds(entries)
        /\ pc = "listing" =>
               /\ total_pages = Ceil(Len(entries), page_size)
               /\ table_data =
                      RowsWhere(Slice(entries, page, page_size),
                                LAMBDA c : TRUE)

\* C8: in the listing loop, for any number of contacts (none included) and
\* any page size of at least 1, the page stays between 1 and total_pages
\* after any next and previous commands, next from the last page gives
\* page 1, previous from page 1 gives the last page, and neither fails.
C8_PagingWraps ==
    [][/\ error' # "ZeroDivisionError"
       /\ (pc = "listing" /\ pc' = "listing")
              => (1 <= page' /\ page' <= total_pages')
       /\ (pc = "listing" /\ op' = "next")
              => page' = (IF page = total_pages THEN 1 ELSE page + 1)
       /\ (pc = "listing" /\ op' = "previous")
              => page' = (IF page = 1 THEN total_pages ELSE page - 1)]_vars

====
